---- MODULE Spec2Model ----
(***************************************************************************)
(* confspec: environment-variable interpolation (confspec/interpolate.py), *)
(* deep merge and the load orchestrator (confspec/loader.py) and the       *)
(* overlay file naming (confspec/helpers.py).                              *)
(*                                                                         *)
(* Text is modelled as a sequence of one-character strings, so the         *)
(* expression grammar is matched character by character the way            *)
(* INTERPOLATION_PATTERN matches it.                                       *)
(***************************************************************************)
EXTENDS Integers, Sequences, FiniteSets, TLC

VARIABLES
    environ,    \* os.environ: a function from the names that are set to their values
    parts,      \* how the string handed to try_interpolate was written (grammar view)
    value,      \* the string handed to try_interpolate
    result,     \* what try_interpolate returned or raised
    fileName,   \* the name of the base file handed to env_file_name
    envFile,    \* what env_file_name returned for it
    hierarchy,  \* _loads: the raw documents handed over, as the trees their text denotes
    heap,       \* the dict and list objects the parsers have built, by address
    mappings,   \* _loads: the addresses of the parsed documents, in source order
    parsed,     \* _loads: the address functools.reduce returned
    disk,       \* the configuration files on disk, each as the tree its text denotes
    call,       \* load: the arguments of the call and the environment it started in
    resolved_env,   \* load: the environment name resolved
    env_file_path,  \* load: the overlay file looked up, or None
    contents,   \* load: the files read, in order
    loaded,     \* what load returned or raised
    frames,     \* temp_set_env: the blocks entered and not yet left, innermost last
    exited,     \* temp_set_env: the block left last, with the variable before and after
    threads     \* concurrent loads: where each thread stands in load, and its locals

interpVars == <<parts, value, result>>
nameVars == <<fileName, envFile>>
mergeVars == <<hierarchy, heap, mappings, parsed>>
loadVars == <<disk, call, resolved_env, env_file_path, contents, loaded>>
callVars == <<frames, exited, threads>>
vars == <<environ, parts, value, result, fileName, envFile, hierarchy, heap, mappings, parsed,
          disk, call, resolved_env, env_file_path, contents, loaded, frames, exited, threads>>

(***************************************************************************)
(* Bounds of the model.                                                    *)
(***************************************************************************)
MaxParts == 2
MaxNameLen == 4

(***************************************************************************)
(* Text helpers.                                                           *)
(***************************************************************************)
Letters == {"A", "B", "C", "E", "F", "N", "O", "P", "S", "V",
            "a", "b", "c", "d", "e", "l", "m", "p", "q", "v", "x", "y"}
Digits == {"1"}
Whitespace == {" ", "\t"}

\* the character at position i, or "" past either end of the text
At(s, i) == IF i \in 1..Len(s) THEN s[i] ELSE ""

\* the first position >= i of s that holds one of chars, 0 when there is none
FirstIn(s, i, chars) ==
    LET hits == {q \in i..Len(s) : s[q] \in chars}
    IN  IF hits = {} THEN 0 ELSE CHOOSE q \in hits : \A r \in hits : q <= r

\* the first position >= i of s that holds no word character, Len(s) + 1 when
\* there is none
FirstNotWord(s, i) ==
    LET hits == {q \in i..Len(s) : s[q] \notin Letters \cup Digits \cup {"_"}}
    IN  IF hits = {} THEN Len(s) + 1 ELSE CHOOSE q \in hits : \A r \in hits : q <= r

\* sub occurs in s at position i
OccursAt(s, sub, i) ==
    /\ i >= 1
    /\ i + Len(sub) - 1 <= Len(s)
    /\ \A k \in 1..Len(sub) : s[i + k - 1] = sub[k]

\* str.strip(): leading and trailing whitespace removed
strip(s) ==
    LET keep == {i \in 1..Len(s) : s[i] \notin Whitespace}
    IN  IF keep = {} THEN <<>>
        ELSE SubSeq(s, CHOOSE i \in keep : \A j \in keep : i <= j,
                       CHOOSE i \in keep : \A j \in keep : i >= j)

\* str.split(delim) for a non-empty delim: cut at every occurrence, left to right
RECURSIVE split(_, _)
split(s, delim) ==
    LET hits == {i \in 1..Len(s) : OccursAt(s, delim, i)}
    IN  IF hits = {} THEN <<s>>
        ELSE LET i == CHOOSE h \in hits : \A g \in hits : h <= g
             IN  <<SubSeq(s, 1, i - 1)>> \o split(SubSeq(s, i + Len(delim), Len(s)), delim)

(***************************************************************************)
(* INTERPOLATION_PATTERN:                                                  *)
(*   (\$)?(\$\{ name (\[ delim \])? (~)? (:[^}]*|\?)? \})                  *)
(* Every group is greedy and no shorter choice of a group lets the rest    *)
(* match, so a match from a given position is found in one left-to-right   *)
(* pass.                                                                   *)
(***************************************************************************)
IsNameStart(c) == c \in Letters \cup {"_"}
IsWord(c) == c \in Letters \cup Digits \cup {"_"}

NoMatch ==
    [ok |-> FALSE, escaped |-> FALSE, start |-> 0, stop |-> 0, rawStart |-> 0,
     name |-> <<>>, hasDelim |-> FALSE, delim |-> <<>>, strip |-> FALSE,
     hasDefault |-> FALSE, default |-> <<>>]

\* the tail of an expression from position p on: (~)? (:[^}]*|\?)? \}
MatchTail(s, j, nameEnd, hasDelim, delim, p) ==
    LET isStrip == At(s, p) = "~"
        q == IF isStrip THEN p + 1 ELSE p
        close == FirstIn(s, q, {"}"})
        m == [ok |-> TRUE, escaped |-> FALSE, start |-> j, stop |-> 0, rawStart |-> j,
              name |-> SubSeq(s, j + 2, nameEnd), hasDelim |-> hasDelim, delim |-> delim,
              strip |-> isStrip, hasDefault |-> FALSE, default |-> <<>>]
    IN  IF At(s, q) = ":" /\ close # 0
            THEN [m EXCEPT !.hasDefault = TRUE, !.default = SubSeq(s, q, close - 1),
                           !.stop = close + 1]
        ELSE IF At(s, q) = "?" /\ At(s, q + 1) = "}"
            THEN [m EXCEPT !.hasDefault = TRUE, !.default = <<"?">>, !.stop = q + 2]
        ELSE IF At(s, q) = "}"
            THEN [m EXCEPT !.stop = q + 1]
        ELSE NoMatch

\* the group "raw" matched from position j: \$\{ name (\[ delim \])? ...
MatchRaw(s, j) ==
    IF ~(At(s, j) = "$" /\ At(s, j + 1) = "{" /\ IsNameStart(At(s, j + 2)))
    THEN NoMatch
    ELSE LET p == FirstNotWord(s, j + 3)
             nameEnd == p - 1
             q == FirstIn(s, p + 1, {"]", "}"})
         IN  IF At(s, p) = "["
             THEN IF q > p + 1 /\ At(s, q) = "]"
                  THEN MatchTail(s, j, nameEnd, TRUE, SubSeq(s, p + 1, q - 1), q + 1)
                  ELSE NoMatch
             ELSE MatchTail(s, j, nameEnd, FALSE, <<>>, p)

\* a match of the whole pattern that starts at position i
MatchAt(s, i) ==
    IF At(s, i) # "$" THEN NoMatch
    ELSE LET esc == MatchRaw(s, i + 1)
         IN  IF esc.ok THEN [esc EXCEPT !.escaped = TRUE, !.start = i]
             ELSE MatchRaw(s, i)

\* INTERPOLATION_PATTERN.fullmatch(value)
fullmatch(s) ==
    LET m == MatchAt(s, 1)
    IN  IF m.ok /\ m.stop = Len(s) + 1 THEN m ELSE NoMatch

(***************************************************************************)
(* Values returned and exceptions raised.                                  *)
(***************************************************************************)
Str(s) == [kind |-> "str", str |-> s]
List(l) == [kind |-> "list", list |-> l]
Null == [kind |-> "null"]
KeyError(name) == [kind |-> "KeyError", name |-> name]
SyntaxError(msg) == [kind |-> "SyntaxError", msg |-> msg]
NotCalled == [kind |-> "none"]

IsError(r) == r.kind \in {"KeyError", "SyntaxError"}

\* os.getenv(name, default)
getenv(env, name, default) == IF name \in DOMAIN env THEN env[name] ELSE default

(***************************************************************************)
(* _replace_fn(match), and the slips of it the claims are tried against.   *)
(***************************************************************************)
\* an unset variable without default read as the empty string
_replace_fn_unset_as_empty(s, m, env) ==
    IF m.escaped THEN Str(SubSeq(s, m.rawStart, m.stop - 1))
    ELSE IF m.hasDelim THEN SyntaxError("list expansion is not supported within strings")
    ELSE IF m.name \notin DOMAIN env
         THEN IF ~m.hasDefault THEN Str(<<>>)
              ELSE IF m.default = <<"?">>
                   THEN SyntaxError("None-as-default flag is not supported within strings")
              ELSE Str(IF m.strip THEN strip(Tail(m.default)) ELSE Tail(m.default))
    ELSE Str(IF m.strip THEN strip(env[m.name]) ELSE env[m.name])

\* the delimiter clause not rejected
_replace_fn_delim_unchecked(s, m, env) ==
    IF m.escaped THEN Str(SubSeq(s, m.rawStart, m.stop - 1))
    ELSE IF m.name \notin DOMAIN env
         THEN IF ~m.hasDefault THEN KeyError(m.name)
              ELSE IF m.default = <<"?">>
                   THEN SyntaxError("None-as-default flag is not supported within strings")
              ELSE Str(IF m.strip THEN strip(Tail(m.default)) ELSE Tail(m.default))
    ELSE Str(IF m.strip THEN strip(env[m.name]) ELSE env[m.name])

\* the whole match, escape character included, given back for an escaped expression
_replace_fn_escape_kept(s, m, env) ==
    IF m.escaped THEN Str(SubSeq(s, m.start, m.stop - 1))
    ELSE IF m.hasDelim THEN SyntaxError("list expansion is not supported within strings")
    ELSE IF m.name \notin DOMAIN env
         THEN IF ~m.hasDefault THEN KeyError(m.name)
              ELSE IF m.default = <<"?">>
                   THEN SyntaxError("None-as-default flag is not supported within strings")
              ELSE Str(IF m.strip THEN strip(Tail(m.default)) ELSE Tail(m.default))
    ELSE Str(IF m.strip THEN strip(env[m.name]) ELSE env[m.name])

\* the trim flag not applied to a default
_replace_fn_default_untrimmed(s, m, env) ==
    IF m.escaped THEN Str(SubSeq(s, m.rawStart, m.stop - 1))
    ELSE IF m.hasDelim THEN SyntaxError("list expansion is not supported within strings")
    ELSE IF m.name \notin DOMAIN env
         THEN IF ~m.hasDefault THEN KeyError(m.name)
              ELSE IF m.default = <<"?">>
                   THEN SyntaxError("None-as-default flag is not supported within strings")
              ELSE Str(Tail(m.default))
    ELSE Str(IF m.strip THEN strip(env[m.name]) ELSE env[m.name])

_replace_fn(s, m, env) ==
    IF m.escaped THEN Str(SubSeq(s, m.rawStart, m.stop - 1))
    ELSE IF m.hasDelim THEN SyntaxError("list expansion is not supported within strings")
    ELSE IF m.name \notin DOMAIN env
         THEN IF ~m.hasDefault THEN KeyError(m.name)
              ELSE IF m.default = <<"?">>
                   THEN SyntaxError("None-as-default flag is not supported within strings")
              ELSE Str(IF m.strip THEN strip(Tail(m.default)) ELSE Tail(m.default))
    ELSE Str(IF m.strip THEN strip(env[m.name]) ELSE env[m.name])

\* INTERPOLATION_PATTERN.sub(_replace_fn, value) from position pos on: the text is
\* scanned left to right, a match is replaced and the scan goes on behind it, a
\* character no match starts at is kept, and the first exception ends the call
RECURSIVE sub(_, _, _)
sub(s, pos, env) ==
    IF pos > Len(s) THEN Str(<<>>)
    ELSE LET m == MatchAt(s, pos)
             r == IF m.ok THEN _replace_fn(s, m, env) ELSE Str(<<s[pos]>>)
             rest == sub(s, IF m.ok THEN m.stop ELSE pos + 1, env)
         IN  IF IsError(r) THEN r
             ELSE IF IsError(rest) THEN rest
             ELSE Str(r.str \o rest.str)

(***************************************************************************)
(* try_interpolate(value), and the slips of it the claims are tried        *)
(* against.                                                                *)
(***************************************************************************)
\* the delimiter clause looked at before the null flag
try_interpolate_split_first(s, env) ==
    LET m == fullmatch(s)
        matched_and_not_escaped == m.ok /\ ~m.escaped
        val == getenv(env, m.name, IF m.hasDefault THEN Tail(m.default) ELSE <<>>)
        elems == split(val, m.delim)
    IN  IF matched_and_not_escaped /\ m.hasDelim
        THEN List([i \in 1..Len(elems) |-> IF m.strip THEN strip(elems[i]) ELSE elems[i]])
        ELSE IF matched_and_not_escaped /\ m.hasDefault /\ m.default = <<"?">>
                /\ m.name \notin DOMAIN env
        THEN Null
        ELSE sub(s, 1, env)

\* the value trimmed once before the split instead of element by element
try_interpolate_trim_before_split(s, env) ==
    LET m == fullmatch(s)
        matched_and_not_escaped == m.ok /\ ~m.escaped
        val == getenv(env, m.name, IF m.hasDefault THEN Tail(m.default) ELSE <<>>)
        elems == split(IF m.strip THEN strip(val) ELSE val, m.delim)
    IN  IF matched_and_not_escaped /\ m.hasDefault /\ m.default = <<"?">>
           /\ m.name \notin DOMAIN env
        THEN Null
        ELSE IF matched_and_not_escaped /\ m.hasDelim
        THEN List(elems)
        ELSE sub(s, 1, env)

try_interpolate(s, env) ==
    LET m == fullmatch(s)
        matched_and_not_escaped == m.ok /\ ~m.escaped
        val == getenv(env, m.name, IF m.hasDefault THEN Tail(m.default) ELSE <<>>)
        elems == split(val, m.delim)
    IN  IF matched_and_not_escaped /\ m.hasDefault /\ m.default = <<"?">>
           /\ m.name \notin DOMAIN env
        THEN Null
        ELSE IF matched_and_not_escaped /\ m.hasDelim
        THEN List([i \in 1..Len(elems) |-> IF m.strip THEN strip(elems[i]) ELSE elems[i]])
        ELSE sub(s, 1, env)

(***************************************************************************)
(* The strings handed to try_interpolate.  A string is written as a        *)
(* sequence of parts, each a piece of literal text or one expression       *)
(* ${NAME[delim]~:default}, possibly escaped by a leading $.               *)
(***************************************************************************)
Names == {<<"A">>, <<"B">>}
DefaultTexts == {<<":">>, <<":", " ", "d", ",", "e", " ">>, <<"?">>}
LiteralTexts == {<<" ", "x">>, <<"$">>}

Lit(t) == [expr |-> FALSE, text |-> t]
Expr(esc, n, hd, dl, st, hdf, df) ==
    [expr |-> TRUE, escaped |-> esc, name |-> n, hasDelim |-> hd, delim |-> dl,
     strip |-> st, hasDefault |-> hdf, default |-> df]

ExprParts ==
    {Expr(esc, <<"A">>, hd, IF hd THEN <<",">> ELSE <<>>, st, FALSE, <<>>) :
        esc \in BOOLEAN, hd \in BOOLEAN, st \in BOOLEAN}
    \cup {Expr(esc, <<"A">>, hd, IF hd THEN <<",">> ELSE <<>>, st, TRUE, df) :
        esc \in BOOLEAN, hd \in BOOLEAN, st \in BOOLEAN, df \in DefaultTexts}
    \cup {Expr(FALSE, <<"B">>, FALSE, <<>>, FALSE, FALSE, <<>>)}
    \cup {Expr(FALSE, <<"B">>, FALSE, <<>>, FALSE, TRUE, df) :
        df \in {<<"?">>, <<":", "d">>}}

PartSet == ExprParts \cup {Lit(t) : t \in LiteralTexts}

RawText(p) ==
    <<"$", "{">> \o p.name
    \o (IF p.hasDelim THEN <<"[">> \o p.delim \o <<"]">> ELSE <<>>)
    \o (IF p.strip THEN <<"~">> ELSE <<>>)
    \o (IF p.hasDefault THEN p.default ELSE <<>>)
    \o <<"}">>

PartText(p) ==
    IF ~p.expr THEN p.text
    ELSE (IF p.escaped THEN <<"$">> ELSE <<>>) \o RawText(p)

\* the values a variable of the environment is given
CONFSPEC_ENV == <<"C", "O", "N", "F", "S", "P", "E", "C", "_", "E", "N", "V">>

EnvValues(n) ==
    IF n = <<"A">> THEN {<<>>, <<" ", "b", " ", ",", "c", " ">>}
    ELSE IF n = CONFSPEC_ENV THEN {<<>>, <<"p">>, <<" ", "q", " ">>}
    ELSE {<<"v">>}

(***************************************************************************)
(* The interpolation engine on its own: the environment is set and unset   *)
(* from outside, and try_interpolate is called on a string.                *)
(***************************************************************************)
InterpInit ==
    /\ environ = <<>>
    /\ parts = <<>>
    /\ value = <<>>
    /\ result = NotCalled
    /\ fileName = <<>>
    /\ envFile = NotCalled
    /\ hierarchy = <<>>
    /\ heap = <<>>
    /\ mappings = <<>>
    /\ parsed = NotCalled
    /\ disk = <<>>
    /\ call = NotCalled
    /\ resolved_env = <<>>
    /\ env_file_path = Null
    /\ contents = <<>>
    /\ loaded = NotCalled
    /\ frames = <<>>
    /\ exited = NotCalled
    /\ threads = <<>>

\* os.environ[n] = v, by the process around the library, before the call
Setenv(n, v) ==
    /\ result = NotCalled
    /\ loaded = NotCalled
    /\ environ' = [x \in DOMAIN environ \cup {n} |-> IF x = n THEN v ELSE environ[x]]
    /\ UNCHANGED <<callVars, interpVars, nameVars, mergeVars, loadVars>>

\* del os.environ[n]
Delenv(n) ==
    /\ result = NotCalled
    /\ loaded = NotCalled
    /\ n \in DOMAIN environ
    /\ environ' = [x \in DOMAIN environ \ {n} |-> environ[x]]
    /\ UNCHANGED <<callVars, interpVars, nameVars, mergeVars, loadVars>>

\* the string is written part by part before it is evaluated
Write(p) ==
    /\ result = NotCalled
    /\ Len(parts) < MaxParts
    /\ parts' = Append(parts, p)
    /\ value' = value \o PartText(p)
    /\ UNCHANGED <<callVars, environ, result, nameVars, mergeVars, loadVars>>

TryInterpolate ==
    /\ result = NotCalled
    /\ parts # <<>>
    /\ result' = try_interpolate(value, environ)
    /\ UNCHANGED <<callVars, environ, parts, value, nameVars, mergeVars, loadVars>>

InterpNext ==
    \/ \E n \in Names : \E v \in EnvValues(n) : Setenv(n, v)
    \/ \E n \in Names : Delenv(n)
    \/ \E p \in PartSet : Write(p)
    \/ TryInterpolate

InterpSpec == InterpInit /\ [][InterpNext]_vars
(***************************************************************************)
(* helpers.env_file_name(path, env), on the final component of the path.   *)
(***************************************************************************)
\* str.find(c): the 0-based index of the first c in s, -1 when there is none
find(s, c) ==
    LET i == FirstIn(s, 1, {c})
    IN  IF i = 0 THEN -1 ELSE i - 1

\* s[:k] of Python, k negative counting from the end
SliceTo(s, k) ==
    IF k >= 0 THEN SubSeq(s, 1, IF k > Len(s) THEN Len(s) ELSE k)
    ELSE SubSeq(s, 1, Len(s) + k)

\* PurePath.suffixes: none for a name that ends in a dot; else the name without
\* its leading dots is cut at its dots and every piece but the first is a suffix
suffixes(name) ==
    IF name = <<>> \/ name[Len(name)] = "." THEN <<>>
    ELSE LET first == CHOOSE i \in 1..Len(name) :
                          name[i] # "." /\ \A j \in 1..(i - 1) : name[j] = "."
             pieces == split(SubSeq(name, first, Len(name)), <<".">>)
         IN  [i \in 1..(Len(pieces) - 1) |-> <<".">> \o pieces[i + 1]]

RECURSIVE Concat(_)
Concat(l) == IF l = <<>> THEN <<>> ELSE Head(l) \o Concat(Tail(l))

env_file_name(name, env) ==
    LET idx == find(name, ".")
        cut == IF idx # 0 THEN idx ELSE Len(name)    \* name.find(".") or len(name)
    IN  SliceTo(name, cut) \o <<".">> \o env \o Concat(suffixes(name))

(***************************************************************************)
(* env_file_name on its own: a file name is written and the overlay name   *)
(* for an environment is asked for.                                        *)
(***************************************************************************)
NameChars == {"a", "b", "."}
EnvTags == {<<"p">>, <<"q", "a">>}

NameInit ==
    /\ environ = <<>>
    /\ parts = <<>>
    /\ value = <<>>
    /\ result = NotCalled
    /\ fileName = <<>>
    /\ envFile = NotCalled
    /\ hierarchy = <<>>
    /\ heap = <<>>
    /\ mappings = <<>>
    /\ parsed = NotCalled
    /\ disk = <<>>
    /\ call = NotCalled
    /\ resolved_env = <<>>
    /\ env_file_path = Null
    /\ contents = <<>>
    /\ loaded = NotCalled
    /\ frames = <<>>
    /\ exited = NotCalled
    /\ threads = <<>>

WriteName(c) ==
    /\ envFile = NotCalled
    /\ Len(fileName) < MaxNameLen
    /\ fileName' = Append(fileName, c)
    /\ UNCHANGED <<callVars, environ, interpVars, envFile, mergeVars, loadVars>>

\* a file name does not end in a dot
EnvFileName(env) ==
    /\ envFile = NotCalled
    /\ fileName # <<>>
    /\ fileName[Len(fileName)] # "."
    /\ envFile' = [kind |-> "str", str |-> env_file_name(fileName, env), env |-> env]
    /\ UNCHANGED <<callVars, environ, interpVars, fileName, mergeVars, loadVars>>

NameNext ==
    \/ \E c \in NameChars : WriteName(c)
    \/ \E env \in EnvTags : EnvFileName(env)

NameSpec == NameInit /\ [][NameNext]_vars

(***************************************************************************)
(* Configuration trees.  A tree as a document denotes it is a value        *)
(* [t, v]: a scalar ("int", "str", "null"), a "list" of trees or a "dict"  *)
(* from keys to trees.  What a parser builds from it lives in the heap:    *)
(* every dict and list is an object with an address, and a slot holds a    *)
(* scalar or a reference to an object, as in Python.                       *)
(***************************************************************************)
Number(n) == [t |-> "int", int |-> n]
Boolean(b) == [t |-> "bool", bool |-> b]
Text(s) == [t |-> "str", str |-> s]
NullValue == [t |-> "null"]
ListT(l) == [t |-> "list", list |-> l]
DictT(m) == [t |-> "dict", dict |-> m]
Ref(a) == [t |-> "ref", ref |-> a]

IsContainer(tr) == tr.t \in {"dict", "list"}

Keys == {"a", "b"}
\* the order a dict is iterated in
KeyOrder == <<"a", "b">>
\* the step of a path that leads to the i-th element of a list
IdxName == <<"0", "1", "2">>

Addr(i, p) == [src |-> i, path |-> p]

\* the child of a container that a step of a path leads to
Child(tr, step) ==
    IF tr.t = "dict" THEN tr.dict[step]
    ELSE tr.list[CHOOSE i \in 1..Len(tr.list) : IdxName[i] = step]

Steps(tr) ==
    IF tr.t = "dict" THEN DOMAIN tr.dict
    ELSE IF tr.t = "list" THEN {IdxName[i] : i \in 1..Len(tr.list)}
    ELSE {}

\* the paths to the containers of a tree
RECURSIVE Paths(_)
Paths(tr) ==
    IF ~IsContainer(tr) THEN {}
    ELSE {<<>>} \cup UNION {{<<k>> \o p : p \in Paths(Child(tr, k))} : k \in Steps(tr)}

RECURSIVE Node(_, _)
Node(tr, p) == IF p = <<>> THEN tr ELSE Node(Child(tr, Head(p)), Tail(p))

\* what a slot holds for a child: the scalar itself, or a reference to its object
Slot(i, p, step, child) ==
    IF IsContainer(child) THEN Ref(Addr(i, p \o <<step>>)) ELSE child

\* the object built for the container at path p of the i-th document
Obj(i, p, tr) ==
    IF tr.t = "dict"
    THEN DictT([k \in DOMAIN tr.dict |-> Slot(i, p, k, tr.dict[k])])
    ELSE ListT([j \in 1..Len(tr.list) |-> Slot(i, p, IdxName[j], tr.list[j])])

\* parser().read(raw): the objects of the i-th document, all of them new
read(i, doc) ==
    [a \in {Addr(i, p) : p \in Paths(doc)} |-> Obj(i, a.path, Node(doc, a.path))]

\* the tree a slot of the heap stands for
RECURSIVE Deref(_, _)
Deref(h, cell) ==
    IF cell.t # "ref" THEN cell
    ELSE LET o == h[cell.ref]
         IN  IF o.t = "dict"
             THEN DictT([k \in DOMAIN o.dict |-> Deref(h, o.dict[k])])
             ELSE ListT([j \in 1..Len(o.list) |-> Deref(h, o.list[j])])

(***************************************************************************)
(* loader._merge_dicts(d1, d2): d1 is updated in place and returned.       *)
(***************************************************************************)
isdict(h, cell) == cell.t = "ref" /\ h[cell.ref].t = "dict"

KeysOf(m) == SelectSeq(KeyOrder, LAMBDA k : k \in DOMAIN m)

\* d1[key] = val
SetItem(h, d1, key, val) ==
    [h EXCEPT ![d1].dict = [x \in DOMAIN @ \cup {key} |-> IF x = key THEN val ELSE @[x]]]

\* the slip tried against the claims: dict.update, the overlay's value taken at
\* every key without looking into nested dicts
_merge_dicts_shallow(h, d1, d2) ==
    [h EXCEPT ![d1].dict = [x \in DOMAIN @ \cup DOMAIN h[d2].dict |->
                               IF x \in DOMAIN h[d2].dict THEN h[d2].dict[x] ELSE @[x]]]

RECURSIVE _merge_dicts(_, _, _)
RECURSIVE merge_keys(_, _, _, _)

\* the body of the loop "for key in d2", for the keys still to come
merge_keys(h, d1, d2, keys) ==
    IF keys = <<>> THEN h
    ELSE LET key == Head(keys)
             nested == /\ key \in DOMAIN h[d1].dict
                       /\ isdict(h, h[d1].dict[key])
                       /\ isdict(h, h[d2].dict[key])
         IN  merge_keys(IF nested
                        THEN _merge_dicts(h, h[d1].dict[key].ref, h[d2].dict[key].ref)
                        ELSE SetItem(h, d1, key, h[d2].dict[key]),
                        d1, d2, Tail(keys))

\* the heap after _merge_dicts(d1, d2); the call returns d1
_merge_dicts(h, d1, d2) == merge_keys(h, d1, d2, KeysOf(h[d2].dict))

\* functools.reduce(_merge_dicts, mappings): the heap after the fold; the fold
\* returns the first mapping
RECURSIVE reduce(_, _)
reduce(h, roots) ==
    IF Len(roots) <= 1 THEN h
    ELSE reduce(_merge_dicts(h, roots[1], roots[2]), <<roots[1]>> \o SubSeq(roots, 3, Len(roots)))

(***************************************************************************)
(* Deep merge on its own: documents are parsed and fold-merged as _loads   *)
(* does it.                                                                *)
(***************************************************************************)
\* load hands _loads the base document and at most one overlay
MaxSources == 2

Dicts(vals) == {DictT(m) : m \in UNION {[ks -> vals] : ks \in SUBSET Keys}}
MergeLeaves == {Number(1), ListT(<<Number(1)>>), ListT(<<Number(2)>>)}
DeepDicts == {DictT([k \in {"a"} |-> DictT([j \in {"a"} |-> Number(1)])]),
              DictT([k \in {"a"} |-> DictT([j \in {"b"} |-> ListT(<<Number(1)>>)])])}
Documents == Dicts(MergeLeaves \cup Dicts(MergeLeaves) \cup DeepDicts)

MergeInit ==
    /\ environ = <<>>
    /\ parts = <<>>
    /\ value = <<>>
    /\ result = NotCalled
    /\ fileName = <<>>
    /\ envFile = NotCalled
    /\ hierarchy = <<>>
    /\ heap = <<>>
    /\ mappings = <<>>
    /\ parsed = NotCalled
    /\ disk = <<>>
    /\ call = NotCalled
    /\ resolved_env = <<>>
    /\ env_file_path = Null
    /\ contents = <<>>
    /\ loaded = NotCalled
    /\ frames = <<>>
    /\ exited = NotCalled
    /\ threads = <<>>

\* mappings.append(parser().read(raw))
Read(doc) ==
    /\ parsed = NotCalled
    /\ Len(mappings) < MaxSources
    /\ hierarchy' = Append(hierarchy, doc)
    /\ heap' = read(Len(mappings) + 1, doc) @@ heap
    /\ mappings' = Append(mappings, Addr(Len(mappings) + 1, <<>>))
    /\ UNCHANGED <<callVars, environ, interpVars, nameVars, parsed, loadVars>>

\* parsed = functools.reduce(_merge_dicts, mappings)
Reduce ==
    /\ parsed = NotCalled
    /\ mappings # <<>>
    /\ heap' = reduce(heap, mappings)
    /\ parsed' = [kind |-> "ref", ref |-> mappings[1]]
    /\ UNCHANGED <<callVars, environ, interpVars, nameVars, hierarchy, mappings, loadVars>>

MergeNext ==
    \/ \E doc \in Documents : Read(doc)
    \/ Reduce

MergeSpec == MergeInit /\ [][MergeNext]_vars

(***************************************************************************)
(* interpolate.InterpolationVisitor: the tree is walked and every string   *)
(* leaf replaced in place by what try_interpolate gives for it.  A call    *)
(* gives the heap it leaves and either the value it returns ("ok") or the  *)
(* exception it raises.                                                    *)
(***************************************************************************)
Ok(h, cell) == [h |-> h, out |-> [kind |-> "ok", cell |-> cell]]
\* the element of a set of one element: a call is written r \in {call}, so that
\* what follows reads the value r the call gave
Only(S) == CHOOSE x \in S : TRUE
Raise(h, exc) == [h |-> h, out |-> exc]

SrcName == <<"1", "2", "3">>
\* the address of the list a string in slot step of the object at a expands to
NewListAt(a, step) == Addr(0, <<SrcName[a.src]>> \o a.path \o <<step>>)

\* the slip tried against the claims: every string leaf trimmed on the way out
visit_value_trimmed(h, env, val, at) ==
    IF val.t # "str" THEN Ok(h, val)
    ELSE Only({IF r.kind = "str" THEN Ok(h, Text(strip(r.str)))
               ELSE IF r.kind = "null" THEN Ok(h, NullValue)
               ELSE IF r.kind = "list"
               THEN Ok((at :> ListT([i \in 1..Len(r.list) |-> Text(r.list[i])])) @@ h, Ref(at))
               ELSE Raise(h, r) :
               r \in {try_interpolate(s, e) : s \in {val.str}, e \in {env}}})

visit_value(h, env, val, at) ==
    IF val.t # "str" THEN Ok(h, val)
    ELSE Only({IF r.kind = "str" THEN Ok(h, Text(r.str))
               ELSE IF r.kind = "null" THEN Ok(h, NullValue)
               ELSE IF r.kind = "list"
               THEN Ok((at :> ListT([i \in 1..Len(r.list) |-> Text(r.list[i])])) @@ h, Ref(at))
               ELSE Raise(h, r) :
               r \in {try_interpolate(s, e) : s \in {val.str}, e \in {env}}})

RECURSIVE visit(_, _, _, _)
RECURSIVE visit_list(_, _, _, _)
RECURSIVE visit_dict(_, _, _, _, _)

\* for i in range(len(lst)): lst[i] = self.visit(lst[i]), from index i on
visit_list(h, env, a, i) ==
    IF i > Len(h[a].list) THEN Ok(h, Ref(a))
    ELSE Only({IF r.out.kind # "ok" THEN r
               ELSE visit_list([r.h EXCEPT ![a].list[i] = r.out.cell], env, a, i + 1) :
               r \in {visit(h, env, h[a].list[i], NewListAt(a, IdxName[i]))}})

\* for k, v in list(dct.items()): dct[k] = self.visit(v), for the keys still to
\* come; items is the copy of the items taken before the loop
visit_dict(h, env, a, keys, items) ==
    IF keys = <<>> THEN Ok(h, Ref(a))
    ELSE Only({IF r.out.kind # "ok" THEN r
               ELSE visit_dict(SetItem(r.h, a, k, r.out.cell), env, a, Tail(keys), items) :
               k \in {Head(keys)},
               r \in {visit(h, env, items[Head(keys)], NewListAt(a, Head(keys)))}})

visit(h, env, item, at) ==
    IF isdict(h, item) THEN visit_dict(h, env, item.ref, KeysOf(h[item.ref].dict), h[item.ref].dict)
    ELSE IF item.t = "ref" THEN visit_list(h, env, item.ref, 1)
    ELSE visit_value(h, env, item, at)

(***************************************************************************)
(* loader._loads(hierarchy, fmt) without a class to decode into.           *)
(***************************************************************************)
parser_registry ==
    {<<"j", "s", "o", "n">>, <<"t", "o", "m", "l">>, <<"y", "a", "m", "l">>, <<"y", "m", "l">>}

NotImplementedError == [kind |-> "NotImplementedError"]
Tree(tr) == [kind |-> "tree", tree |-> tr]

\* the slip tried against the claims: every document interpolated on its own
\* before the fold
RECURSIVE visit_each(_, _, _)
visit_each(h, env, roots) ==
    IF roots = <<>> THEN Ok(h, NullValue)
    ELSE Only({IF r.out.kind # "ok" THEN r ELSE visit_each(r.h, env, Tail(roots)) :
               r \in {visit(h, env, Ref(Head(roots)), Addr(0, <<>>))}})

_loads_visit_before_merge(docs, fmt, env) ==
    IF fmt \notin parser_registry
    THEN [heap |-> <<>>, mappings |-> <<>>, parsed |-> NotCalled, out |-> NotImplementedError]
    ELSE LET roots == [i \in 1..Len(docs) |-> Addr(i, <<>>)]
         IN  Only({[heap |-> r.h, mappings |-> roots,
                    parsed |-> [kind |-> "ref", ref |-> roots[1]],
                    out |-> IF r.out.kind = "ok" THEN Tree(Deref(r.h, Ref(Addr(1, <<>>))))
                            ELSE r.out] :
                   r \in UNION {{IF v.out.kind = "ok" THEN Ok(reduce(v.h, roots), NullValue)
                                  ELSE v} :
                       v \in UNION {{visit_each(h0, env, roots)} :
                           h0 \in {[a \in UNION {DOMAIN read(i, docs[i]) : i \in 1..Len(docs)} |->
                                        read(a.src, docs[a.src])[a]]}}}})

_loads(docs, fmt, env) ==
    IF fmt \notin parser_registry
    THEN [heap |-> <<>>, mappings |-> <<>>, parsed |-> NotCalled, out |-> NotImplementedError]
    ELSE LET \* mappings: the roots of the objects parser().read gives
             roots == [i \in 1..Len(docs) |-> Addr(i, <<>>)]
         IN  \* h0 is the heap the parsers leave, h1 the heap the fold leaves and r
             \* what the visit of parsed gives
             Only({[heap |-> r.h, mappings |-> roots,
                    parsed |-> [kind |-> "ref", ref |-> roots[1]],
                    out |-> IF r.out.kind = "ok" THEN Tree(Deref(r.h, r.out.cell))
                            ELSE r.out] :
                   r \in UNION {{visit(h1, env, Ref(Addr(1, <<>>)), Addr(0, <<>>))} :
                       h1 \in UNION {{reduce(h0, roots)} :
                           h0 \in {[a \in UNION {DOMAIN read(i, docs[i]) : i \in 1..Len(docs)} |->
                                        read(a.src, docs[a.src])[a]]}}}})

(***************************************************************************)
(* loader.load(path, env=...) on a file of the working directory.          *)
(***************************************************************************)
\* str.rfind(c): the 0-based index of the last c in s, -1 when there is none
rfind(s, c) ==
    LET hits == {i \in 1..Len(s) : s[i] = c}
    IN  IF hits = {} THEN -1 ELSE (CHOOSE i \in hits : \A j \in hits : i >= j) - 1

\* PurePath.suffix
suffix(name) ==
    LET i == rfind(name, ".")
    IN  IF 0 < i /\ i < Len(name) - 1 THEN SubSeq(name, i + 1, Len(name)) ELSE <<>>

\* os.environ[n] = v
setenv(env, n, v) == [x \in DOMAIN env \cup {n} |-> IF x = n THEN v ELSE env[x]]

\* the slip tried against the claims: CONFSPEC_ENV asked before the argument
load_env_var_first(path, env, environ0, files) ==
    LET given == IF CONFSPEC_ENV \in DOMAIN environ0 /\ environ0[CONFSPEC_ENV] # <<>>
                 THEN environ0[CONFSPEC_ENV]
                 ELSE IF env.kind = "str" THEN env.str ELSE <<>>
        resolved == strip(given)
        environ1 == IF resolved # <<>> THEN setenv(environ0, CONFSPEC_ENV, resolved)
                    ELSE environ0
        efp == IF resolved # <<>> THEN Str(env_file_name(path, resolved)) ELSE Null
        read_files == IF efp.kind = "str" /\ efp.str \in DOMAIN files
                      THEN <<path, efp.str>> ELSE <<path>>
        docs == [i \in 1..Len(read_files) |-> files[read_files[i]]]
        \* _loads(contents, path.suffix[1:])
        r == Only({_loads(d, fmt, e) :
                   d \in {docs}, e \in {environ1},
                   fmt \in {IF suffix(path) = <<>> THEN <<>> ELSE Tail(suffix(path))}})
    IN  [environ |-> environ1, resolved_env |-> resolved, env_file_path |-> efp,
         contents |-> read_files, hierarchy |-> docs, loads |-> r]

\* the slip tried against the claims: the documents loaded before the resolved
\* name is written to CONFSPEC_ENV
load_write_back_late(path, env, environ0, files) ==
    LET given == IF env.kind = "str" /\ env.str # <<>> THEN env.str
                 ELSE getenv(environ0, CONFSPEC_ENV, <<>>)
        resolved == strip(given)
        environ1 == IF resolved # <<>> THEN setenv(environ0, CONFSPEC_ENV, resolved)
                    ELSE environ0
        efp == IF resolved # <<>> THEN Str(env_file_name(path, resolved)) ELSE Null
        read_files == IF efp.kind = "str" /\ efp.str \in DOMAIN files
                      THEN <<path, efp.str>> ELSE <<path>>
        docs == [i \in 1..Len(read_files) |-> files[read_files[i]]]
        r == Only({_loads(d, fmt, e) :
                   d \in {docs}, e \in {environ0},
                   fmt \in {IF suffix(path) = <<>> THEN <<>> ELSE Tail(suffix(path))}})
    IN  [environ |-> environ1, resolved_env |-> resolved, env_file_path |-> efp,
         contents |-> read_files, hierarchy |-> docs, loads |-> r]

load(path, env, environ0, files) ==
    LET \* env or os.getenv("CONFSPEC_ENV", "")
        given == IF env.kind = "str" /\ env.str # <<>> THEN env.str
                 ELSE getenv(environ0, CONFSPEC_ENV, <<>>)
        resolved == strip(given)
        environ1 == IF resolved # <<>> THEN setenv(environ0, CONFSPEC_ENV, resolved)
                    ELSE environ0
        efp == IF resolved # <<>> THEN Str(env_file_name(path, resolved)) ELSE Null
        read_files == IF efp.kind = "str" /\ efp.str \in DOMAIN files
                      THEN <<path, efp.str>> ELSE <<path>>
        docs == [i \in 1..Len(read_files) |-> files[read_files[i]]]
        \* _loads(contents, path.suffix[1:])
        r == Only({_loads(d, fmt, e) :
                   d \in {docs}, e \in {environ1},
                   fmt \in {IF suffix(path) = <<>> THEN <<>> ELSE Tail(suffix(path))}})
    IN  [environ |-> environ1, resolved_env |-> resolved, env_file_path |-> efp,
         contents |-> read_files, hierarchy |-> docs, loads |-> r]

(***************************************************************************)
(* The library at work: the process sets its environment, overlay files    *)
(* appear on disk, and load is called on a base file.                      *)
(***************************************************************************)
Var(n) == <<"$", "{">> \o n \o <<"}">>

BaseYml == <<"c", ".", "y", "m", "l">>
BaseIni == <<"c", ".", "x">>
OverlayP == <<"c", ".", "p", ".", "y", "m", "l">>
OverlayQ == <<"c", ".", "q", ".", "y", "m", "l">>

\* {a: "${A}", b: {a: "${CONFSPEC_ENV?}"}}
BaseDoc ==
    DictT([k \in {"a", "b"} |->
              IF k = "a" THEN Text(Var(<<"A">>))
              ELSE DictT([j \in {"a"} |-> Text(<<"$", "{">> \o CONFSPEC_ENV \o <<"?", "}">>)])])

\* {a: " x", b: {b: "${CONFSPEC_ENV}"}}
OverlayPDoc ==
    DictT([k \in {"a", "b"} |->
              IF k = "a" THEN Text(<<" ", "x">>)
              ELSE DictT([j \in {"b"} |-> Text(Var(CONFSPEC_ENV))])])

\* {a: "$${A}", b: ["${A[,]~:d,e}", 1]}
OverlayQDoc ==
    DictT([k \in {"a", "b"} |->
              IF k = "a" THEN Text(<<"$">> \o Var(<<"A">>))
              ELSE ListT(<<Text(<<"$", "{", "A", "[", ",", "]", "~", ":", "d", ",", "e", "}">>),
                           Number(1)>>)])

BaseFiles == (BaseYml :> BaseDoc) @@ (BaseIni :> BaseDoc)
OverlayFiles == (OverlayP :> OverlayPDoc) @@ (OverlayQ :> OverlayQDoc)

LoadNames == {<<"A">>, CONFSPEC_ENV}
\* the env argument of load: None or a string
EnvArgs == {Null, Str(<<>>), Str(<<" ">>), Str(<<"p">>), Str(<<" ", "q">>)}

Init ==
    /\ environ = <<>>
    /\ parts = <<>>
    /\ value = <<>>
    /\ result = NotCalled
    /\ fileName = <<>>
    /\ envFile = NotCalled
    /\ hierarchy = <<>>
    /\ heap = <<>>
    /\ mappings = <<>>
    /\ parsed = NotCalled
    /\ disk = BaseFiles
    /\ call = NotCalled
    /\ resolved_env = <<>>
    /\ env_file_path = Null
    /\ contents = <<>>
    /\ loaded = NotCalled
    /\ frames = <<>>
    /\ exited = NotCalled
    /\ threads = <<>>

\* an overlay file is put next to the base file
CreateFile(name) ==
    /\ loaded = NotCalled
    /\ name \notin DOMAIN disk
    /\ disk' = (name :> OverlayFiles[name]) @@ disk
    /\ UNCHANGED <<callVars, environ, interpVars, nameVars, mergeVars,
                   call, resolved_env, env_file_path, contents, loaded>>

Load(path, env) ==
    \E r \in {load(path, env, environ, disk)} :
        /\ loaded = NotCalled
        /\ call' = [kind |-> "call", path |-> path, env |-> env, environ |-> environ]
        /\ environ' = r.environ
        /\ resolved_env' = r.resolved_env
        /\ env_file_path' = r.env_file_path
        /\ contents' = r.contents
        /\ hierarchy' = r.hierarchy
        /\ heap' = r.loads.heap
        /\ mappings' = r.loads.mappings
        /\ parsed' = r.loads.parsed
        /\ loaded' = r.loads.out
        /\ UNCHANGED <<callVars, interpVars, nameVars, disk>>

Next ==
    \/ \E n \in LoadNames : \E v \in EnvValues(n) : Setenv(n, v)
    \/ \E n \in LoadNames : Delenv(n)
    \/ \E name \in DOMAIN OverlayFiles : CreateFile(name)
    \/ \E path \in DOMAIN BaseFiles : \E env \in EnvArgs : Load(path, env)

Spec == Init /\ [][Next]_vars

(***************************************************************************)
(* The visitor on its own: a tree is built, the environment is set and     *)
(* unset, and InterpolationVisitor().visit is called on the tree.          *)
(***************************************************************************)
\* strings that hold no "${"
PlainTexts ==
    {<<>>, <<" ", "x">>, <<"$">>, <<"{", "A", "}">>, <<"$", "A">>, <<"$", " ", "{", "A", "}">>,
     <<"}", "$", "$">>}
VisitLeaves ==
    {Text(Var(<<"A">>)), Text(Var(<<"B">>)), Text(<<"$", "{", "A", "[", ",", "]", "}">>),
     Number(1), Boolean(TRUE), NullValue}
    \cup {Text(s) : s \in PlainTexts}
VisitLists ==
    {ListT(<<x, y>>) : x, y \in {Text(Var(<<"A">>)), Text(Var(<<"B">>)), Text(<<"$", "A">>),
                                  Number(1)}}
VisitDicts == Dicts({Text(Var(<<"A">>)), Text(Var(<<"B">>)), Text(<<" ", "x">>), NullValue})
VisitDocuments == Dicts(VisitLeaves \cup VisitLists \cup VisitDicts)

VisitInit ==
    /\ environ = <<>>
    /\ parts = <<>>
    /\ value = <<>>
    /\ result = NotCalled
    /\ fileName = <<>>
    /\ envFile = NotCalled
    /\ hierarchy = <<>>
    /\ heap = <<>>
    /\ mappings = <<>>
    /\ parsed = NotCalled
    /\ disk = <<>>
    /\ call = NotCalled
    /\ resolved_env = <<>>
    /\ env_file_path = Null
    /\ contents = <<>>
    /\ loaded = NotCalled
    /\ frames = <<>>
    /\ exited = NotCalled
    /\ threads = <<>>

\* the caller builds the tree it is going to pass to visit
BuildTree(doc) ==
    /\ mappings = <<>>
    /\ hierarchy' = <<doc>>
    /\ heap' = read(1, doc)
    /\ mappings' = <<Addr(1, <<>>)>>
    /\ parsed' = [kind |-> "ref", ref |-> Addr(1, <<>>)]
    /\ UNCHANGED <<callVars, environ, interpVars, nameVars, loadVars>>

\* InterpolationVisitor().visit(tree)
Visit ==
    /\ mappings # <<>>
    /\ loaded = NotCalled
    /\ \E r \in {visit(heap, environ, Ref(parsed.ref), Addr(0, <<>>))} :
          /\ heap' = r.h
          /\ loaded' = IF r.out.kind = "ok" THEN Tree(Deref(r.h, r.out.cell)) ELSE r.out
    /\ call' = [kind |-> "visit", environ |-> environ]
    /\ UNCHANGED <<callVars, environ, interpVars, nameVars, hierarchy, mappings, parsed,
                   disk, resolved_env, env_file_path, contents>>

VisitNext ==
    \/ \E n \in Names : \E v \in EnvValues(n) : Setenv(n, v)
    \/ \E n \in Names : Delenv(n)
    \/ \E doc \in VisitDocuments : BuildTree(doc)
    \/ Visit

VisitSpec == VisitInit /\ [][VisitNext]_vars

(***************************************************************************)
(* helpers.temp_set_env(key, value): a context manager, entered and left   *)
(* around a block that may itself set and unset variables.                 *)
(***************************************************************************)
MaxDepth == 2

\* os.getenv(key, None)
getenv_or_none(env, key) == IF key \in DOMAIN env THEN Str(env[key]) ELSE Null

\* os.environ.pop(key, None)
popenv(env, key) == [x \in DOMAIN env \ {key} |-> env[x]]

\* up to the yield: the value kept for the way out, and the environment
temp_set_env_enter(env, key, val) ==
    [old_value |-> getenv_or_none(env, key),
     environ |-> IF val # Null THEN setenv(env, key, val.str) ELSE env]

\* the slip tried against the claims: a variable that was absent is left as the
\* block set it
temp_set_env_exit_no_pop(env, key, old_value) ==
    IF old_value # Null THEN setenv(env, key, old_value.str) ELSE env

\* the finally clause
temp_set_env_exit(env, key, old_value) ==
    IF old_value # Null THEN setenv(env, key, old_value.str) ELSE popenv(env, key)

TempValues == {Null, Str(<<"v">>)}

TempInit ==
    /\ environ = <<>>
    /\ parts = <<>>
    /\ value = <<>>
    /\ result = NotCalled
    /\ fileName = <<>>
    /\ envFile = NotCalled
    /\ hierarchy = <<>>
    /\ heap = <<>>
    /\ mappings = <<>>
    /\ parsed = NotCalled
    /\ disk = <<>>
    /\ call = NotCalled
    /\ resolved_env = <<>>
    /\ env_file_path = Null
    /\ contents = <<>>
    /\ loaded = NotCalled
    /\ frames = <<>>
    /\ exited = NotCalled
    /\ threads = <<>>

\* with temp_set_env(key, val): the block is entered
Enter(key, val) ==
    /\ Len(frames) < MaxDepth
    /\ \E r \in {temp_set_env_enter(environ, key, val)} :
          /\ environ' = r.environ
          /\ frames' = Append(frames, [key |-> key, value |-> val, old_value |-> r.old_value,
                                       before |-> getenv_or_none(environ, key),
                                       inside |-> getenv_or_none(r.environ, key)])
    /\ UNCHANGED <<interpVars, nameVars, mergeVars, loadVars, exited, threads>>

\* the innermost block is left, by reaching its end or by an exception
Exit(raised) ==
    /\ frames # <<>>
    /\ \E f \in {frames[Len(frames)]} :
          /\ environ' = temp_set_env_exit(environ, f.key, f.old_value)
          /\ exited' = [kind |-> "exit", key |-> f.key, value |-> f.value, raised |-> raised,
                        depth |-> Len(frames), before |-> f.before,
                        after |-> getenv_or_none(environ', f.key)]
    /\ frames' = SubSeq(frames, 1, Len(frames) - 1)
    /\ UNCHANGED <<interpVars, nameVars, mergeVars, loadVars, threads>>

TempNext ==
    \/ \E n \in Names : \E v \in EnvValues(n) : Setenv(n, v)
    \/ \E n \in Names : Delenv(n)
    \/ \E n \in Names : \E v \in TempValues : Enter(n, v)
    \/ \E raised \in BOOLEAN : Exit(raised)

TempSpec == TempInit /\ [][TempNext]_vars

(***************************************************************************)
(* Two threads call load at the same time.  Each statement of load is a    *)
(* step of its thread; os.environ is shared and nothing guards it.         *)
(***************************************************************************)
Threads == {1, 2}

\* resolved_env = (env or os.getenv("CONFSPEC_ENV", "")).strip()
load_resolve(env, environ0) ==
    strip(IF env.kind = "str" /\ env.str # <<>> THEN env.str
          ELSE getenv(environ0, CONFSPEC_ENV, <<>>))

\* the slip tried against the claims: the resolved name is not written back
load_write_back_skipped(environ0, resolved) == environ0

\* if resolved_env: os.environ["CONFSPEC_ENV"] = resolved_env
load_write_back(environ0, resolved) ==
    IF resolved # <<>> THEN setenv(environ0, CONFSPEC_ENV, resolved) ELSE environ0

\* env_file_path = (path.parent / env_file_name(path, resolved_env)) if resolved_env else None
load_env_file_path(path, resolved) ==
    IF resolved # <<>> THEN Str(env_file_name(path, resolved)) ELSE Null

IdleThread ==
    [pc |-> "idle", path |-> <<>>, env |-> Null, resolved_env |-> <<>>,
     env_file_path |-> Null, contents |-> <<>>, out |-> NotCalled]

RaceArgs == {Null, Str(<<"p">>), Str(<<" ", "q">>)}

RaceInit ==
    /\ environ = <<>>
    /\ parts = <<>>
    /\ value = <<>>
    /\ result = NotCalled
    /\ fileName = <<>>
    /\ envFile = NotCalled
    /\ hierarchy = <<>>
    /\ heap = <<>>
    /\ mappings = <<>>
    /\ parsed = NotCalled
    /\ disk = BaseFiles @@ OverlayFiles
    /\ call = NotCalled
    /\ resolved_env = <<>>
    /\ env_file_path = Null
    /\ contents = <<>>
    /\ loaded = NotCalled
    /\ frames = <<>>
    /\ exited = NotCalled
    /\ threads = [t \in Threads |-> IdleThread]

AllIdle == \A t \in Threads : threads[t].pc = "idle"
RaceFrame == <<interpVars, nameVars, mergeVars, loadVars, frames, exited>>

\* thread t calls load(path, env=env)
StartLoad(t, path, env) ==
    /\ threads[t].pc = "idle"
    /\ threads' = [threads EXCEPT ![t] = [IdleThread EXCEPT !.pc = "read", !.path = path,
                                                            !.env = env]]
    /\ UNCHANGED <<environ, RaceFrame>>

\* with open(path, "rb") as file: contents.append(file.read().strip())
ReadBase(t) ==
    /\ threads[t].pc = "read"
    /\ threads' = [threads EXCEPT ![t].pc = "resolve", ![t].contents = <<threads[t].path>>]
    /\ UNCHANGED <<environ, RaceFrame>>

Resolve(t) ==
    /\ threads[t].pc = "resolve"
    /\ threads' = [threads EXCEPT ![t].pc = "write",
                                   ![t].resolved_env = load_resolve(threads[t].env, environ)]
    /\ UNCHANGED <<environ, RaceFrame>>

WriteBack(t) ==
    /\ threads[t].pc = "write"
    /\ environ' = load_write_back(environ, threads[t].resolved_env)
    /\ threads' = [threads EXCEPT ![t].pc = "overlay"]
    /\ UNCHANGED RaceFrame

\* the overlay file is looked for, and read when it is there
ReadOverlay(t) ==
    /\ threads[t].pc = "overlay"
    /\ \E efp \in {load_env_file_path(threads[t].path, threads[t].resolved_env)} :
          threads' = [threads EXCEPT
                         ![t].pc = "loads",
                         ![t].env_file_path = efp,
                         ![t].contents = IF efp.kind = "str" /\ efp.str \in DOMAIN disk
                                         THEN Append(@, efp.str) ELSE @]
    /\ UNCHANGED <<environ, RaceFrame>>

\* return _loads(contents, path.suffix[1:])
Loads(t) ==
    /\ threads[t].pc = "loads"
    /\ \E r \in {_loads([i \in 1..Len(threads[t].contents) |-> disk[threads[t].contents[i]]],
                         Tail(suffix(threads[t].path)), environ)} :
          threads' = [threads EXCEPT ![t].pc = "done", ![t].out = r.out]
    /\ UNCHANGED <<environ, RaceFrame>>

RaceNext ==
    \/ \E n \in LoadNames : \E v \in EnvValues(n) : AllIdle /\ Setenv(n, v)
    \/ \E n \in LoadNames : AllIdle /\ Delenv(n)
    \/ \E t \in Threads : \E env \in RaceArgs : StartLoad(t, BaseYml, env)
    \/ \E t \in Threads : ReadBase(t)
    \/ \E t \in Threads : Resolve(t)
    \/ \E t \in Threads : WriteBack(t)
    \/ \E t \in Threads : ReadOverlay(t)
    \/ \E t \in Threads : Loads(t)

RaceSpec == RaceInit /\ [][RaceNext]_vars

(***************************************************************************)
(* The fold of _loads over a hierarchy of more than two raw documents:     *)
(* every document is parsed into objects of its own, and reduce merges     *)
(* them left to right into the first.                                      *)
(***************************************************************************)
MaxFold == 3

\* documents with one key at the top, a leaf or a dict of leaves under it
FoldLeaves == {Number(1), ListT(<<Number(2)>>)}
FoldDocuments ==
    {DictT(<<>>)}
        \cup {DictT([k \in {"a"} |-> v]) : v \in {Number(1)} \cup Dicts(FoldLeaves)}

FoldInit == MergeInit

\* mappings.append(parser().read(raw)), for each raw document of the hierarchy
ReadSource(doc) ==
    /\ parsed = NotCalled
    /\ Len(mappings) < MaxFold
    /\ hierarchy' = Append(hierarchy, doc)
    /\ heap' = read(Len(mappings) + 1, doc) @@ heap
    /\ mappings' = Append(mappings, Addr(Len(mappings) + 1, <<>>))
    /\ UNCHANGED <<callVars, environ, interpVars, nameVars, parsed, loadVars>>

FoldNext ==
    \/ \E doc \in FoldDocuments : ReadSource(doc)
    \/ Reduce

FoldSpec == FoldInit /\ [][FoldNext]_vars

(***************************************************************************)
(* The grammar reading of a string: a literal that ends in $ right before  *)
(* an expression is that expression's escape character.                    *)
(***************************************************************************)
RECURSIVE Norm(_)
Norm(ps) ==
    IF Len(ps) <= 1 THEN ps
    ELSE LET a == ps[1]
             b == ps[2]
         IN  IF ~a.expr /\ b.expr /\ ~b.escaped /\ a.text # <<>> /\ a.text[Len(a.text)] = "$"
             THEN (IF Len(a.text) = 1 THEN <<>> ELSE <<Lit(SubSeq(a.text, 1, Len(a.text) - 1))>>)
                  \o <<[b EXCEPT !.escaped = TRUE]>> \o Norm(SubSeq(ps, 3, Len(ps)))
             ELSE <<a>> \o Norm(Tail(ps))

G == Norm(parts)
Called == result # NotCalled
Unesc(p) == p.expr /\ ~p.escaped
IsSet(p) == p.name \in DOMAIN environ
HasColonDefault(p) == p.hasDefault /\ p.default # <<"?">>
HasNullFlag(p) == p.hasDefault /\ p.default = <<"?">>
\* the string is exactly one expression
Whole == Len(G) = 1 /\ G[1].expr
\* an expression that ordinary substitution resolves to a text
Resolvable(p) == ~p.hasDelim /\ ~HasNullFlag(p) /\ (IsSet(p) \/ HasColonDefault(p))
Trim(p, t) == IF p.strip THEN strip(t) ELSE t
ResolvedText(p) == Trim(p, IF IsSet(p) THEN environ[p.name] ELSE Tail(p.default))

RECURSIVE Expected(_)
Expected(ps) ==
    IF ps = <<>> THEN <<>>
    ELSE LET p == Head(ps)
         IN  (IF ~p.expr THEN p.text
              ELSE IF p.escaped THEN RawText(p)
              ELSE ResolvedText(p)) \o Expected(Tail(ps))

RECURSIVE Join(_, _)
Join(l, delim) ==
    IF Len(l) = 1 THEN l[1] ELSE l[1] \o delim \o Join(Tail(l), delim)

\* l is s cut at every occurrence of delim
IsSplitOf(l, s, delim) ==
    /\ Len(l) >= 1
    /\ Join(l, delim) = s
    /\ \A k \in 1..Len(l) : \A i \in 1..Len(l[k]) : ~OccursAt(l[k], delim, i)
(***************************************************************************)
(* Claims about the interpolation engine (checked under InterpSpec).       *)
(***************************************************************************)
\* an unescaped expression whose variable is unset and that has no default clause
Missing(p) == Unesc(p) /\ ~IsSet(p) /\ ~p.hasDefault

\* C2 as stated: an unescaped expression whose variable is unset and that carries
\* neither :default nor ? makes the evaluation fail with a lookup error naming the
\* variable, when it is the entire string (with or without trim flag or delimiter
\* clause) and when it is embedded without a delimiter clause.
C2_Original ==
    Called =>
        \A i \in 1..Len(G) :
            (Missing(G[i]) /\ (Len(G) = 1 \/ ~G[i].hasDelim)) => result = KeyError(G[i].name)

\* C2, amended: such an expression fails with the lookup error naming its variable
\* when it is the entire string and carries no delimiter clause, and when it is
\* embedded without a delimiter clause and every unescaped expression to its left
\* resolves (no delimiter clause, no ?, variable set or :default given); as the
\* entire string with a delimiter clause it evaluates to the list holding one
\* empty string.
C2_LookupError ==
    Called =>
        \A i \in 1..Len(G) :
            Missing(G[i]) =>
                /\ (Len(G) = 1 /\ ~G[i].hasDelim) => result = KeyError(G[i].name)
                /\ (Len(G) = 1 /\ G[i].hasDelim) => result = List(<< <<>> >>)
                /\ (/\ Len(G) > 1
                    /\ ~G[i].hasDelim
                    /\ \A j \in 1..(i - 1) : Unesc(G[j]) => Resolvable(G[j]))
                   => result = KeyError(G[i].name)

C2_Witness ==
    /\ Len(G) > 1
    /\ \E i \in 2..Len(G) : Missing(G[i]) /\ Unesc(G[1]) /\ result = KeyError(G[i].name)

\* C3 as stated: a string in which an unescaped expression carrying ? is embedded in
\* a longer string fails with a syntax error, whether the variable is set or unset
\* (stated for the leftmost unescaped expression of the string, which no other
\* expression's error can precede).
C3_NullFlagEmbedded ==
    Called =>
        \A i \in 1..Len(G) :
            (/\ Len(G) > 1
             /\ Unesc(G[i])
             /\ HasNullFlag(G[i])
             /\ \A j \in 1..(i - 1) : ~Unesc(G[j]))
            => result.kind = "SyntaxError"

C5_Escaped ==
    (/\ Called
     /\ \E i \in 1..Len(G) : G[i].expr /\ G[i].escaped
     /\ \A i \in 1..Len(G) : Unesc(G[i]) => Resolvable(G[i]))
    => result = Str(Expected(G))

C5_Witness ==
    /\ Len(G) > 1
    /\ G[1].expr /\ G[1].escaped /\ ~IsSet(G[1]) /\ G[1].hasDelim /\ HasNullFlag(G[1])
    /\ result.kind = "str"

\* C6: a string that is entirely one unescaped expression carrying ? evaluates to
\* null when the variable is unset, delimiter clause and trim flag or not; when the
\* variable is set, even to the empty string, to the variable's value (trimmed
\* under the trim flag): a list under a delimiter clause, a string otherwise.
C6_NullFlagWhole ==
    (Called /\ Len(G) = 1 /\ Unesc(G[1]) /\ HasNullFlag(G[1])) =>
            LET p == G[1]
                elems == split(environ[p.name], p.delim)
            IN  IF ~IsSet(p) THEN result = Null
                ELSE IF p.hasDelim
                THEN result = List([i \in 1..Len(elems) |-> Trim(p, elems[i])])
                ELSE result = Str(Trim(p, environ[p.name]))

C6_Witness ==
    /\ Len(G) = 1 /\ Unesc(G[1]) /\ HasNullFlag(G[1]) /\ G[1].hasDelim /\ G[1].strip
    /\ ~IsSet(G[1])
    /\ result = Null

\* C7: a string that is entirely one unescaped expression with a delimiter clause
\* (the null case apart) evaluates to the resolved raw value (the variable's value,
\* else the default without its colon, else the empty string) cut at every
\* occurrence of the delimiter, each element trimmed under the trim flag and kept
\* verbatim without it.
C7_ListSplit ==
    (/\ Called
     /\ Len(G) = 1 /\ Unesc(G[1]) /\ G[1].hasDelim
     /\ ~(HasNullFlag(G[1]) /\ ~IsSet(G[1]))) =>
            LET p == G[1]
                raw == IF IsSet(p) THEN environ[p.name]
                       ELSE IF HasColonDefault(p) THEN Tail(p.default)
                       ELSE <<>>
                elems == split(raw, p.delim)
            IN  /\ IsSplitOf(elems, raw, p.delim)
                /\ result = List([i \in 1..Len(elems) |-> Trim(p, elems[i])])

C7_Witness ==
    /\ Len(G) = 1 /\ Unesc(G[1]) /\ G[1].hasDelim /\ G[1].strip
    /\ ~IsSet(G[1]) /\ HasColonDefault(G[1])
    /\ result = List(<< <<"d">>, <<"e">> >>)

\* C8: ordinary substitution replaces every unescaped expression without delimiter
\* clause by the variable's value when it is set (the default ignored) and by the
\* default text when it is unset and a :default is given, trimmed under the trim
\* flag, the literal text around kept, the result the concatenation in order.
C8_Substitution ==
    (/\ Called
     /\ \E i \in 1..Len(G) : Unesc(G[i])
     /\ \A i \in 1..Len(G) : Unesc(G[i]) => Resolvable(G[i]))
    => result = Str(Expected(G))

C8_Witness ==
    /\ Len(G) > 1
    /\ ~G[1].expr
    /\ Unesc(G[2]) /\ ~IsSet(G[2]) /\ HasColonDefault(G[2]) /\ G[2].strip
    /\ result = Str(G[1].text \o <<"d", ",", "e">>)
(***************************************************************************)
(* Claims about env_file_name (checked under NameSpec).                    *)
(***************************************************************************)
\* C9: for every base file name env_file_name returns that name with .env inserted
\* after its first dot-delimited segment, so that taking the inserted .env out gives
\* the original name back; a name without dot gets .env appended to the whole name
\* and a dot-leading name such as .baz gives .baz.env.
C9_EnvFileName ==
    envFile # NotCalled =>
        LET tag == <<".">> \o envFile.env
            n == Len(fileName)
        IN  /\ \E k \in 0..n :
                  envFile.str = SubSeq(fileName, 1, k) \o tag \o SubSeq(fileName, k + 1, n)
            /\ (\A i \in 1..n : fileName[i] # ".") => envFile.str = fileName \o tag
            /\ (fileName[1] = "." /\ \A i \in 2..n : fileName[i] # ".")
               => envFile.str = fileName \o tag
(***************************************************************************)
(* Claims about deep merge (checked under MergeSpec).                      *)
(***************************************************************************)
\* r is the deep merge of base b and overlay o
RECURSIVE Merged(_, _, _)
Merged(r, b, o) ==
    /\ r.t = "dict"
    /\ DOMAIN r.dict = DOMAIN b.dict \cup DOMAIN o.dict
    /\ \A k \in DOMAIN r.dict :
          IF k \notin DOMAIN o.dict THEN r.dict[k] = b.dict[k]
          ELSE IF k \in DOMAIN b.dict /\ b.dict[k].t = "dict" /\ o.dict[k].t = "dict"
               THEN Merged(r.dict[k], b.dict[k], o.dict[k])
          ELSE r.dict[k] = o.dict[k]

\* C1: merge(base, overlay) has the union of both key sets; at a key of the overlay
\* it holds the recursive merge when both sides are mappings and the overlay's
\* value otherwise (sequences replaced wholesale); a key of the base alone keeps
\* its value.
C1_DeepMerge ==
    (parsed # NotCalled /\ Len(hierarchy) = 2)
    => Merged(Deref(heap, Ref(parsed.ref)), hierarchy[1], hierarchy[2])

C1_Witness ==
    /\ parsed # NotCalled
    /\ Len(hierarchy) = 2
    /\ hierarchy[1] = DictT([k \in {"a", "b"} |->
                               IF k = "a" THEN DictT([j \in {"a"} |-> ListT(<<Number(1)>>)])
                               ELSE Number(1)])
    /\ hierarchy[2] = DictT([k \in {"a"} |-> DictT([j \in {"b"} |-> ListT(<<Number(2)>>)])])
    /\ Deref(heap, Ref(parsed.ref)) =
           DictT([k \in {"a", "b"} |->
                     IF k = "a" THEN DictT([j \in {"a", "b"} |->
                                               IF j = "a" THEN ListT(<<Number(1)>>)
                                               ELSE ListT(<<Number(2)>>)])
                     ELSE Number(1)])
(***************************************************************************)
(* Claims about load (checked under Spec).                                 *)
(***************************************************************************)
\* an environment name was passed to the call: a string that is not empty
Supplied == call.env.kind = "str" /\ call.env.str # <<>>
\* what CONFSPEC_ENV held when the call was made, the empty text when unset
EnvVar == IF CONFSPEC_ENV \in DOMAIN call.environ THEN call.environ[CONFSPEC_ENV] ELSE <<>>
\* the name the call is to go by, surrounding whitespace apart
ChosenName == strip(IF Supplied THEN call.env.str ELSE EnvVar)
\* the overlay file the call is to look for
ChosenFile == env_file_name(call.path, ChosenName)

\* C10: load goes by the environment name passed to it when one is passed,
\* whatever CONFSPEC_ENV holds, and by CONFSPEC_ENV otherwise; with no name from
\* either it looks up no overlay and loads the base document alone; with a name
\* whose overlay file is not on disk it loads the base document alone and ends
\* as the load of the base document alone ends; with a name whose overlay file
\* is on disk it loads the base document and then that overlay.
C10_EnvResolution ==
    call # NotCalled =>
        /\ resolved_env = ChosenName
        /\ ChosenName = <<>> =>
               /\ env_file_path = Null
               /\ contents = <<call.path>>
               /\ hierarchy = <<disk[call.path]>>
        /\ (ChosenName # <<>> /\ ChosenFile \notin DOMAIN disk) =>
               /\ env_file_path = Str(ChosenFile)
               /\ contents = <<call.path>>
               /\ hierarchy = <<disk[call.path]>>
               /\ loaded = _loads(<<disk[call.path]>>, Tail(suffix(call.path)), environ).out
        /\ (ChosenName # <<>> /\ ChosenFile \in DOMAIN disk) =>
               /\ env_file_path = Str(ChosenFile)
               /\ contents = <<call.path, ChosenFile>>
               /\ hierarchy = <<disk[call.path], disk[ChosenFile]>>

\* load was given a name while CONFSPEC_ENV held another, and the overlay of the
\* given name was on disk and merged in
C10_Witness ==
    /\ call # NotCalled
    /\ Supplied
    /\ strip(EnvVar) # <<>>
    /\ strip(EnvVar) # ChosenName
    /\ env_file_name(call.path, strip(EnvVar)) \in DOMAIN disk
    /\ contents = <<call.path, ChosenFile>>
    /\ loaded.kind = "tree"
(***************************************************************************)
(* Claims about the write-back of the environment name (checked under      *)
(* Spec).                                                                  *)
(***************************************************************************)
\* the call returned a tree that holds, under key b, a mapping with key k
HasLeaf(k) ==
    /\ loaded.kind = "tree"
    /\ "b" \in DOMAIN loaded.tree.dict
    /\ loaded.tree.dict["b"].t = "dict"
    /\ k \in DOMAIN loaded.tree.dict["b"].dict

\* C11: when load resolves a non-empty environment name E, CONFSPEC_ENV holds E
\* while the documents are interpolated (the leaves ${CONFSPEC_ENV?} of the base
\* and ${CONFSPEC_ENV} of the overlay evaluate to E) and after the call, whether
\* it returned or failed, and no other variable is written; when no name is
\* resolved the environment is as it was before the call.
C11_WriteBack ==
    call # NotCalled =>
        /\ resolved_env # <<>> =>
               /\ CONFSPEC_ENV \in DOMAIN environ
               /\ environ[CONFSPEC_ENV] = resolved_env
               /\ DOMAIN environ = DOMAIN call.environ \cup {CONFSPEC_ENV}
               /\ \A n \in DOMAIN environ \ {CONFSPEC_ENV} : environ[n] = call.environ[n]
               /\ \A k \in {"a", "b"} :
                      HasLeaf(k) => loaded.tree.dict["b"].dict[k] = Text(resolved_env)
        /\ resolved_env = <<>> => environ = call.environ

\* load was given a name while CONFSPEC_ENV held none or another, and returned
\* the merged tree whose ${CONFSPEC_ENV} leaf holds the given name
C11_Witness ==
    /\ call # NotCalled
    /\ resolved_env # <<>>
    /\ getenv(call.environ, CONFSPEC_ENV, <<>>) # resolved_env
    /\ HasLeaf("b")
    /\ loaded.tree.dict["b"].dict["b"] = Text(resolved_env)
(***************************************************************************)
(* Claims about the visitor (checked under VisitSpec).                     *)
(***************************************************************************)
\* the tree the caller holds after the call
TreeNow == Deref(heap, Ref(parsed.ref))

\* C12 as stated: when the interpolation of a tree fails on some string leaf, no
\* tree is returned and the tree passed to visit holds no leaf that was already
\* replaced: it is the tree that was passed in.
C12_NoPartialResult ==
    (call # NotCalled /\ IsError(loaded)) => TreeNow = hierarchy[1]

\* s holds the two characters that open an expression
HasExprStart(s) == \E i \in 1..(Len(s) - 1) : s[i] = "$" /\ s[i + 1] = "{"
\* a number, a boolean, null, or a string without "${"
Plain(v) == v.t \in {"int", "bool", "null"} \/ (v.t = "str" /\ ~HasExprStart(v.str))

\* every plain value of the tree orig stands unchanged at its place in the tree now
RECURSIVE Kept(_, _)
Kept(orig, now) ==
    IF Plain(orig) THEN now = orig
    ELSE IF orig.t = "list"
    THEN /\ now.t = "list"
         /\ Len(now.list) = Len(orig.list)
         /\ \A j \in 1..Len(orig.list) : Kept(orig.list[j], now.list[j])
    ELSE IF orig.t = "dict"
    THEN /\ now.t = "dict"
         /\ DOMAIN now.dict = DOMAIN orig.dict
         /\ \A k \in DOMAIN orig.dict : Kept(orig.dict[k], now.dict[k])
    ELSE TRUE

\* C13: interpolation leaves every string without "${" and every number, boolean
\* and null as it is, at the top of the tree and inside lists and mappings,
\* whatever the environment holds: in the tree the visit returns, and in the
\* caller's tree also when the visit fails elsewhere.
C13_PlainUnchanged ==
    call # NotCalled =>
        /\ Kept(hierarchy[1], TreeNow)
        /\ loaded.kind = "tree" => Kept(hierarchy[1], loaded.tree)

\* a visit returned a tree in which an expression was replaced next to a plain
\* string with surrounding whitespace and a dollar sign that opens nothing
C13_Witness ==
    /\ call # NotCalled
    /\ loaded.kind = "tree"
    /\ DOMAIN hierarchy[1].dict = {"a", "b"}
    /\ hierarchy[1].dict["a"] = ListT(<<Text(Var(<<"A">>)), Text(<<"$", "A">>)>>)
    /\ hierarchy[1].dict["b"] = Text(<<" ", "x">>)
    /\ loaded.tree.dict["a"].list[1] # Text(Var(<<"A">>))
    /\ loaded.tree.dict["a"].list[2] = Text(<<"$", "A">>)
    /\ loaded.tree.dict["b"] = Text(<<" ", "x">>)
(***************************************************************************)
(* Claims about temp_set_env (checked under TempSpec).                     *)
(***************************************************************************)
\* C14: on entering a block of temp_set_env(key, value) the variable equals value
\* when value is not None and is as it was when value is None; once the block is
\* left, by its end or by an exception, the variable is as it was before the
\* block was entered (the same value, or absent), whatever the block did to it
\* and also for a block nested in another on the same key.
C14_TempSetEnv ==
    /\ \A i \in 1..Len(frames) :
          frames[i].inside = IF frames[i].value # Null THEN frames[i].value
                             ELSE frames[i].before
    /\ exited # NotCalled => exited.after = exited.before

\* a block nested in another on the same key was left through an exception: the
\* variable was absent before the outer block, was emptied inside it, and the
\* inner block found it empty and left it empty
C14_Witness ==
    /\ exited # NotCalled
    /\ exited.depth = 2
    /\ exited.raised
    /\ Len(frames) = 1
    /\ frames[1].key = exited.key
    /\ frames[1].before = Null
    /\ frames[1].value = Str(<<"v">>)
    /\ exited.value = Str(<<"v">>)
    /\ exited.before = Str(<<>>)
    /\ exited.after = Str(<<>>)
(***************************************************************************)
(* Claims about the order of the pipeline (checked under Spec).            *)
(***************************************************************************)
\* the fold of base b and overlay o, as a tree
RECURSIVE MergeTree(_, _)
MergeTree(b, o) ==
    DictT([k \in DOMAIN b.dict \cup DOMAIN o.dict |->
              IF k \notin DOMAIN o.dict THEN b.dict[k]
              ELSE IF k \in DOMAIN b.dict /\ b.dict[k].t = "dict" /\ o.dict[k].t = "dict"
                   THEN MergeTree(b.dict[k], o.dict[k])
              ELSE o.dict[k]])

\* what one evaluation makes of a string leaf: a value of the tree, or the error
LeafOnce(s, env) ==
    LET r == try_interpolate(s, env)
    IN  IF r.kind = "str" THEN Text(r.str)
        ELSE IF r.kind = "null" THEN NullValue
        ELSE IF r.kind = "list" THEN ListT([i \in 1..Len(r.list) |-> Text(r.list[i])])
        ELSE [t |-> "error", error |-> r]

\* the tree with every string leaf evaluated once, and nothing evaluated again
RECURSIVE Once(_, _)
Once(tr, env) ==
    IF tr.t = "str" THEN LeafOnce(tr.str, env)
    ELSE IF tr.t = "list" THEN ListT([j \in 1..Len(tr.list) |-> Once(tr.list[j], env)])
    ELSE IF tr.t = "dict" THEN DictT([k \in DOMAIN tr.dict |-> Once(tr.dict[k], env)])
    ELSE tr

\* the errors the evaluated tree holds, in the order of the walk
RECURSIVE Errors(_)
RECURSIVE ErrorsIn(_, _)
Errors(tr) ==
    IF tr.t = "error" THEN <<tr.error>>
    ELSE IF tr.t = "list" THEN ErrorsIn(tr.list, 1)
    ELSE IF tr.t = "dict"
    THEN ErrorsIn([i \in 1..Len(KeysOf(tr.dict)) |-> tr.dict[KeysOf(tr.dict)[i]]], 1)
    ELSE <<>>
ErrorsIn(l, i) == IF i > Len(l) THEN <<>> ELSE Errors(l[i]) \o ErrorsIn(l, i + 1)

\* the merged tree of the documents load read
MergedDocs ==
    IF Len(hierarchy) = 1 THEN hierarchy[1] ELSE MergeTree(hierarchy[1], hierarchy[2])

\* C15: an unregistered format fails before any source is parsed; otherwise the
\* sources are parsed, folded base first and overlay last, and only then is the
\* merged tree interpolated: load returns the merged tree with every string
\* leaf evaluated exactly once, or raises the error of the first leaf of the
\* merged tree that fails; a string of the base that the overlay replaces is
\* not evaluated.
C15_PipelineOrder ==
    call # NotCalled =>
        IF Tail(suffix(call.path)) \notin parser_registry
        THEN loaded = NotImplementedError /\ mappings = <<>> /\ heap = <<>>
        ELSE /\ Len(mappings) = Len(contents)
             /\ LET errs == Errors(Once(MergedDocs, environ))
                IN  IF errs = <<>> THEN loaded = Tree(Once(MergedDocs, environ))
                    ELSE loaded = Head(errs)

\* with A unset load read the base, whose leaf ${A} alone would fail, and an
\* overlay that replaces it by the escaped $${A}: the tree came back with the
\* text ${A}, evaluated once
C15_Witness ==
    /\ call # NotCalled
    /\ Len(contents) = 2
    /\ <<"A">> \notin DOMAIN environ
    /\ hierarchy[1].dict["a"] = Text(Var(<<"A">>))
    /\ hierarchy[2].dict["a"] = Text(<<"$">> \o Var(<<"A">>))
    /\ loaded.kind = "tree"
    /\ loaded.tree.dict["a"] = Text(Var(<<"A">>))
(***************************************************************************)
(* Claims about concurrent loads (checked under RaceSpec).                 *)
(***************************************************************************)
\* the values thread t got for the leaves ${CONFSPEC_ENV?} (key a) and
\* ${CONFSPEC_ENV} (key b) of the mapping under key b of its tree
EnvLeaves(t) ==
    IF /\ threads[t].out.kind = "tree"
       /\ "b" \in DOMAIN threads[t].out.tree.dict
       /\ threads[t].out.tree.dict["b"].t = "dict"
    THEN {threads[t].out.tree.dict["b"].dict[k] : k \in DOMAIN threads[t].out.tree.dict["b"].dict}
    ELSE {}

\* both loads are over and resolved names that differ
BothDone ==
    /\ \A t \in Threads : threads[t].pc = "done" /\ threads[t].resolved_env # <<>>
    /\ threads[1].resolved_env # threads[2].resolved_env

\* C16: two loads that run at the same time and resolve different names A and B
\* share CONFSPEC_ENV without a lock: what a load reads through ${CONFSPEC_ENV}
\* while it interpolates is A or B, not always its own name, and what
\* CONFSPEC_ENV holds when both are over is A or B, as the steps fell.
C16_Race ==
    BothDone =>
        /\ CONFSPEC_ENV \in DOMAIN environ
        /\ environ[CONFSPEC_ENV] \in {threads[t].resolved_env : t \in Threads}
        /\ \A t \in Threads :
              EnvLeaves(t) \subseteq {Text(threads[u].resolved_env) : u \in Threads}

\* the load that resolved p read q through ${CONFSPEC_ENV}, the name the other
\* load wrote in between, and q is what CONFSPEC_ENV holds in the end
C16_Witness ==
    /\ BothDone
    /\ threads[1].resolved_env = <<"p">>
    /\ threads[2].resolved_env = <<"q">>
    /\ threads[1].contents = <<BaseYml, OverlayP>>
    /\ threads[1].out.kind = "tree"
    /\ threads[1].out.tree.dict["b"].dict["b"] = Text(<<"q">>)
    /\ environ[CONFSPEC_ENV] = <<"q">>

(***************************************************************************)
(* C17                                                                     *)
(***************************************************************************)
\* the tree that the i-th source holds now
SourceNow(i) == Deref(heap, Ref(mappings[i]))

\* C17 as stated: after the fold of the source trees into the leftmost one, every
\* tree but the leftmost is equal to what it was before the fold.
C17_OverlaysUnchanged ==
    parsed # NotCalled =>
        \A i \in 2..Len(mappings) : SourceNow(i) = hierarchy[i]
====
